---- MODULE Spec2Model ----
(***************************************************************************)
(* Model of the video-analysis driver (video_analysis_project/main.py)     *)
(* with the parts of utils/video_processor.py, utils/report_generator.py   *)
(* and the stub analyzers under models/ that the driver calls.             *)
(*                                                                         *)
(* Python dictionaries are functions with a finite string domain, lists    *)
(* are sequences.                            A raised exception is the    *)
(* outcome of a step; the handlers of the code decide where control goes.  *)
(***************************************************************************)
EXTENDS Integers, Sequences, FiniteSets, TLC

VARIABLES
    cfgFile,              \* the configuration file on disk (an input of the run)
    fsDirs,               \* directories that exist
    fsFiles,              \* files of the input directory that the program may still read
    reports,              \* report files written: file name -> the JSON document it holds
    pc,                   \* position of the program
    config,               \* self.config
    video_files,          \* run_analysis: video_files
    video_index,          \* run_analysis: video_index (1-based, enumerate(.., 1))
    analysis_results,     \* analyze_video: analysis_results
    total_frames,         \* analyze_video: total_frames = len(frames)
    i,                    \* analyze_video: index of the next frame of the loop
    video_results,        \* run_analysis: video_results
    all_results,          \* run_analysis: all_results
    successful_analyses,  \* run_analysis: successful_analyses
    failed_analyses,      \* run_analysis: failed_analyses
    log,                  \* records written through self.logger.error/warning
    calls,                \* history: the calls of the latest execution of the frame body
    called,               \* history: what has been called for the video being analysed
    skipped,              \* history: frames of this video whose body raised
    reported,             \* history: videos whose report file has been written
    started,              \* history: video paths passed to analyze_video
    consolidated,         \* history: documents passed to generate_consolidated_report
    interrupted,          \* history: video_index at which KeyboardInterrupt arrived, 0 if none
    faults,               \* number of exceptions raised by the environment so far
    now,                  \* the wall clock that datetime.now() reads
    returned              \* history: what calls made straight to the analyzers returned

vars == <<cfgFile, fsDirs, fsFiles, reports, pc, config, video_files, video_index,
          analysis_results, total_frames, i, video_results, all_results,
          successful_analyses, failed_analyses, log, calls, called, skipped, reported, started,
          consolidated, interrupted, faults, now, returned>>

-----------------------------------------------------------------------------
(* Bounds of the model *)

\* at most this many files lie in the input directory
MaxVideos == 2

\* at most this many exceptions are raised by the environment in one run
\* (an analyzer that raises, a file that disappears, a disk write that fails)
MaxFaults == 1

\* at most this many calls are made straight to the analyzers
MaxCalls == 2

\* the wall clock advances at most this far
MaxClock == 2

-----------------------------------------------------------------------------
(* Python values *)

\* None, where a dictionary or an object is expected
None == [py |-> "None"]

\* no exception was raised
NoError == "NoError"

EmptyDict == <<>>

EmptyList == <<>>

\* key in d
HasKey(d, k) == k \in DOMAIN d

\* d.get(k, default)
Get(d, k, default) == IF k \in DOMAIN d THEN d[k] ELSE default

\* d[k] = v on a dictionary
SetKey(d, k, v) == [x \in (DOMAIN d) \cup {k} |-> IF x = k THEN v ELSE d[x]]

-----------------------------------------------------------------------------
(* Import-time flags of main.py.  utils/__init__.py imports                *)
(* VisualizationManager unconditionally and video_processor.py imports     *)
(* numpy unconditionally, so a run that reaches VideoAnalysisSystem has    *)
(* both guarded imports succeeded.                                         *)

MEDICAL_ANALYZER_AVAILABLE == TRUE

VISUALIZATION_AVAILABLE == TRUE

-----------------------------------------------------------------------------
(* Configuration *)

get_default_config ==
    [video |->
        [input_path |-> "videos/input/",
         output_path |-> "output/",
         supported_formats |-> <<".mp4", ".avi", ".mov", ".mkv", ".wmv">>,
         frame_skip |-> 1],
     analysis |->
        [human_detection |-> TRUE,
         pose_estimation |-> TRUE,
         facial_analysis |-> TRUE,
         behavior_analysis |-> TRUE,
         object_detection |-> TRUE,
         animal_detection |-> TRUE,
         environment_analysis |-> TRUE,
         medical_analysis |-> TRUE],
     output |->
        [generate_report |-> TRUE,
         save_frames |-> TRUE,
         create_visualizations |-> TRUE,
         detailed_logging |-> TRUE],
     medical_settings |->
        [analysis_detail_level |-> "comprehensive",
         anatomical_regions |-> <<"breast", "general">>,
         health_assessment |-> TRUE,
         privacy_mode |-> TRUE,
         medical_terminology |-> TRUE,
         generate_recommendations |-> TRUE]]

\* a configuration document that switches some analyses and outputs off and
\* lists an extension twice, with and without its dot
DocCustom ==
    [video |->
        [input_path |-> "videos/input/",
         output_path |-> "output/",
         supported_formats |-> <<".mp4", ".avi", "mp4">>,
         frame_skip |-> 1],
     analysis |->
        [human_detection |-> TRUE,
         pose_estimation |-> FALSE,
         facial_analysis |-> FALSE,
         behavior_analysis |-> FALSE,
         object_detection |-> FALSE,
         animal_detection |-> TRUE,
         environment_analysis |-> FALSE,
         medical_analysis |-> FALSE],
     output |->
        [generate_report |-> TRUE,
         save_frames |-> FALSE,
         create_visualizations |-> FALSE,
         detailed_logging |-> FALSE]]

\* the same document with an input directory that nothing has created
DocElsewhere == [DocCustom EXCEPT !["video"]["input_path"] = "clips/"]

\* the same document without the generate_report toggle in its output section
DocNoReportToggle ==
    [DocCustom EXCEPT !["output"] =
        [save_frames |-> FALSE,
         create_visualizations |-> FALSE,
         detailed_logging |-> FALSE]]

\* the same document without the save_frames toggle in its output section
DocNoSaveToggle ==
    [DocCustom EXCEPT !["output"] =
        [generate_report |-> TRUE,
         create_visualizations |-> FALSE,
         detailed_logging |-> FALSE]]

\* what yaml.safe_load returns for the documents a readable file may hold
\* (an empty file loads as None)
ConfigDocs == {DocCustom, DocElsewhere, DocNoReportToggle, DocNoSaveToggle, None}

\* the configuration file: absent, present but not readable, readable but
\* not YAML, or readable with one of the documents
ConfigFiles ==
    {[state |-> "missing", doc |-> None],
     [state |-> "unreadable", doc |-> None],
     [state |-> "malformed", doc |-> None]}
    \cup {[state |-> "ok", doc |-> d] : d \in ConfigDocs}

\* the try body of load_config: open() and yaml.safe_load()
OpenAndLoad(file) ==
    CASE file.state = "missing"    -> [raised |-> "FileNotFoundError", value |-> None]
      [] file.state = "unreadable" -> [raised |-> "PermissionError", value |-> None]
      [] file.state = "malformed"  -> [raised |-> "YAMLError", value |-> None]
      [] OTHER                     -> [raised |-> NoError, value |-> file.doc]

\* a load_config whose only handler is the one for FileNotFoundError
LoadConfigResult_OnlyMissing(file) ==
    LET r == OpenAndLoad(file) IN
    IF r.raised = NoError THEN r.value
    ELSE IF r.raised = "FileNotFoundError" THEN get_default_config
    ELSE None

\* load_config: the value it returns
LoadConfigResult(file) ==
    LET r == OpenAndLoad(file) IN
    IF r.raised = NoError THEN r.value
    ELSE IF r.raised = "FileNotFoundError" THEN get_default_config
    ELSE get_default_config

-----------------------------------------------------------------------------
(* Files *)

MB == 1024 * 1024

\* the files that may lie in the input directory, in the order of sorted()
\* on their paths: a.avi < a.mp4 < b.mp4 < notes.txt
FileUniverse ==
    <<[stem |-> "a", suffix |-> ".avi", st_size |-> 5 * MB],
      [stem |-> "a", suffix |-> ".mp4", st_size |-> 5 * MB],
      [stem |-> "b", suffix |-> ".mp4", st_size |-> 20 * MB],
      [stem |-> "notes", suffix |-> ".txt", st_size |-> 0]>>

Files == {FileUniverse[n] : n \in DOMAIN FileUniverse}

\* position of a path in the order Path.__lt__ gives
PathRank(f) == CHOOSE n \in DOMAIN FileUniverse : FileUniverse[n] = f

RECURSIVE SortedList(_)
\* sorted(list(set(...))) on paths
SortedList(S) ==
    IF S = {} THEN <<>>
    ELSE LET m == CHOOSE f \in S : \A g \in S : PathRank(f) <= PathRank(g)
         IN <<m>> \o SortedList(S \ {m})

\* the characters of the strings that make up file names and extensions
Chars ==
    ("a" :> <<"a">>) @@ ("b" :> <<"b">>) @@ ("notes" :> <<"n", "o", "t", "e", "s">>)
    @@ (".avi" :> <<".", "a", "v", "i">>) @@ (".mp4" :> <<".", "m", "p", "4">>)
    @@ (".txt" :> <<".", "t", "x", "t">>) @@ ("mp4" :> <<"m", "p", "4">>)
    @@ (".mov" :> <<".", "m", "o", "v">>) @@ (".mkv" :> <<".", "m", "k", "v">>)
    @@ (".wmv" :> <<".", "w", "m", "v">>)

\* video_path.name
Name(f) == Chars[f.stem] \o Chars[f.suffix]

\* the pattern "*" + t matches s: s ends with t
EndsWith(s, t) ==
    /\ Len(t) <= Len(s)
    /\ SubSeq(s, Len(s) - Len(t) + 1, Len(s)) = t

\* input_path.glob("*" + format_ext)
Glob(files, format_ext) == {f \in files : EndsWith(Name(f), Chars[format_ext])}

RECURSIVE GlobAll(_, _)
\* the list get_video_files extends format by format
GlobAll(files, formats) ==
    IF formats = <<>> THEN <<>>
    ELSE SortedList(Glob(files, Head(formats))) \o GlobAll(files, Tail(formats))

SeqToSet(s) == {s[n] : n \in DOMAIN s}

-----------------------------------------------------------------------------
(* Position of the program *)

InVideo == {"analyze_video", "frame_loop", "behavior", "visualize", "finish_video",
            "check_result", "report"}

-----------------------------------------------------------------------------
(* Initial state: the process has started and main() is about to construct *)
(* VideoAnalysisSystem.                                                    *)

Init ==
    /\ cfgFile \in ConfigFiles
    /\ fsDirs \in SUBSET {"output", "videos/input"}
    /\ fsFiles \in {S \in SUBSET Files : Cardinality(S) <= MaxVideos}
    /\ (fsFiles # {} => "videos/input" \in fsDirs)
    /\ reports = EmptyDict
    /\ pc = "load_config"
    /\ config = None
    /\ video_files = <<>>
    /\ video_index = 0
    /\ analysis_results = None
    /\ total_frames = 0
    /\ i = 0
    /\ video_results = None
    /\ all_results = EmptyDict
    /\ successful_analyses = 0
    /\ failed_analyses = 0
    /\ log = <<>>
    /\ calls = <<>>
    /\ called = {}
    /\ skipped = {}
    /\ reported = <<>>
    /\ started = <<>>
    /\ consolidated = <<>>
    /\ interrupted = 0
    /\ faults = 0
    /\ now = 0
    /\ returned = <<>>

-----------------------------------------------------------------------------
(* Construction: VideoAnalysisSystem.__init__ *)

load_config ==
    /\ pc = "load_config"
    /\ config' = LoadConfigResult(cfgFile)
    /\ pc' = "setup_logging"
    /\ UNCHANGED <<now, returned>>
    /\ UNCHANGED <<cfgFile, fsDirs, fsFiles, reports, video_files, video_index,
                   analysis_results, total_frames, i, video_results, all_results,
                   successful_analyses, failed_analyses, log, calls, called, skipped, reported, started,
                   consolidated, interrupted, faults>>

\* self.config.get('output', {}) raises AttributeError when config is None;
\* logging.FileHandler('output/analysis.log') opens the file at once and
\* raises FileNotFoundError when output/ does not exist.  Either exception
\* leaves __init__ and is caught by main().
setup_logging ==
    /\ pc = "setup_logging"
    /\ IF config = None
       THEN /\ pc' = "main_except"
            /\ log' = Append(log, [level |-> "error", where |-> "main",
                                   what |-> "AttributeError"])
       ELSE IF "output" \notin fsDirs
       THEN /\ pc' = "main_except"
            /\ log' = Append(log, [level |-> "error", where |-> "main",
                                   what |-> "FileNotFoundError"])
       ELSE /\ pc' = "setup_directories"
            /\ log' = log
    /\ UNCHANGED <<now, returned>>
    /\ UNCHANGED <<cfgFile, fsDirs, fsFiles, reports, config, video_files, video_index,
                   analysis_results, total_frames, i, video_results, all_results,
                   successful_analyses, failed_analyses, calls, called, skipped, reported, started,
                   consolidated, interrupted, faults>>

setup_directories ==
    /\ pc = "setup_directories"
    /\ fsDirs' = fsDirs \cup {"output", "output/reports", "output/frames",
                              "output/visualizations", "output/metadata",
                              "videos/input"}
    /\ pc' = "initialize_analyzers"
    /\ UNCHANGED <<now, returned>>
    /\ UNCHANGED <<cfgFile, fsFiles, reports, config, video_files, video_index,
                   analysis_results, total_frames, i, video_results, all_results,
                   successful_analyses, failed_analyses, log, calls, called, skipped, reported, started,
                   consolidated, interrupted, faults>>

\* The analyzers keep no state of their own; the constructors of
\* VideoProcessor and ReportGenerator create their output directories.
\* The configuration file is not read again after construction, so the
\* model stops tracking it here.
initialize_analyzers ==
    /\ pc = "initialize_analyzers"
    /\ fsDirs' = fsDirs \cup {"output/frames", "output/metadata", "output/reports"}
    /\ cfgFile' = [state |-> "closed", doc |-> None]
    /\ pc' = "run_analysis"
    /\ UNCHANGED <<now, returned>>
    /\ UNCHANGED <<fsFiles, reports, config, video_files, video_index,
                   analysis_results, total_frames, i, video_results, all_results,
                   successful_analyses, failed_analyses, log, calls, called, skipped, reported, started,
                   consolidated, interrupted, faults>>

-----------------------------------------------------------------------------
(* The stub analyzers.  Each returns a literal, of which the model keeps    *)
(* some of the integer, boolean and string fields; the payload of the      *)
(* medical analyzer also holds the time of the call.  The run (Spec) does  *)
(* not let the wall clock advance; StubSpec below does.                    *)

\* HumanAnalyzer.analyze_frame
analyze_frame ==
    [people_detected |-> 1,
     behavioral_indicators |-> <<"calm", "attentive">>]

\* ObjectDetector.detect_objects
detect_objects ==
    [total_objects |-> 3,
     object_interactions |-> <<>>,
     scene_context |-> [environment |-> "office"]]

\* AnimalDetector.detect_animals
detect_animals ==
    [total_animals |-> 0,
     species_detected |-> <<>>,
     detailed_animals |-> <<>>]

\* EnvironmentAnalyzer.analyze_environment
analyze_environment ==
    [environment_type |-> [primary_type |-> "indoor", secondary_type |-> "office"],
     weather_conditions |-> [weather_type |-> "unknown"]]

\* MedicalAnalyzer.get_timestamp: datetime.now().isoformat()
get_timestamp(clock) == <<"isoformat", clock>>

\* MedicalAnalyzer.analyze_anatomical_region, called when the wall clock
\* shows clock
analyze_anatomical_region(clock) ==
    [region_detected |-> TRUE,
     analysis_timestamp |-> get_timestamp(clock),
     analysis_metadata |-> [analysis_version |-> "1.0.0",
                            analysis_type |-> "comprehensive_anatomical"]]

\* BehaviorAnalyzer.analyze_behavior
analyze_behavior ==
    [temporal_analysis |-> [pattern_changes |-> <<>>,
                            rhythm_analysis |-> [rhythm_detected |-> FALSE]],
     activity_recognition |-> [detected_activities |-> <<>>]]

-----------------------------------------------------------------------------
(* VideoProcessor *)

\* _simulate_frame_extraction: the number of frames, from the file size
\* (st_size / (1024 * 1024) > 50 exactly when st_size > 50 * 1024 * 1024)
_simulate_frame_extraction(video_path) ==
    IF video_path.st_size > 50 * MB THEN 20
    ELSE IF video_path.st_size > 10 * MB THEN 15
    ELSE 10

\* extract_frames: len() of the list it returns; any exception inside is
\* caught there and an empty list is returned
extract_frames(video_path, raises) ==
    IF raises THEN 0 ELSE _simulate_frame_extraction(video_path)

\* str(video_path) for a file of the input directory: a string, where
\* video_path itself is a Path object
PathStr(video_path) ==
    [py |-> "str", text |-> <<"videos/input/", video_path.stem, video_path.suffix>>]

\* get_video_info (it catches its own exceptions)
get_video_info(video_path) ==
    [file_path |-> PathStr(video_path),
     file_name |-> <<video_path.stem, video_path.suffix>>,
     file_extension |-> video_path.suffix,
     file_size_bytes |-> video_path.st_size,
     aspect_ratio |-> "16:9"]

-----------------------------------------------------------------------------
(* Per-frame accumulation *)

RECURSIVE GCD(_, _)
GCD(a, b) == IF b = 0 THEN a ELSE GCD(b, a % b)

\* a / b on floats, kept as the fraction in lowest terms
TrueDiv(a, b) == LET g == GCD(a, b) IN [num |-> a \div g, den |-> b \div g]

\* a timestamp computed for 25 frames per second
FrameTimestamp_25(frame_number) == TrueDiv(frame_number, 25)

\* frame_number / 30.0
FrameTimestamp(frame_number) == TrueDiv(frame_number, 30)

\* the dictionary appended for one category of one frame
FrameEntry(frame_number, data) ==
    [frame |-> frame_number,
     timestamp |-> FrameTimestamp(frame_number),
     data |-> data]

\* an accumulator that stores the first category of the frame only
accumulate_results_FirstOnly(results, frame_results, frame_number) ==
    [category \in (DOMAIN results) \cup (DOMAIN frame_results) |->
        IF category \in DOMAIN frame_results /\ category = "human"
        THEN Append(IF category \in DOMAIN results THEN results[category] ELSE EmptyList,
                    FrameEntry(frame_number, frame_results[category]))
        ELSE IF category \in DOMAIN results THEN results[category] ELSE EmptyList]

\* an accumulator that numbers the entries by their position in the list
accumulate_results_Renumber(results, frame_results, frame_number) ==
    [category \in (DOMAIN results) \cup (DOMAIN frame_results) |->
        IF category \in DOMAIN frame_results
        THEN LET old == IF category \in DOMAIN results THEN results[category]
                        ELSE EmptyList
             IN Append(old, FrameEntry(Len(old), frame_results[category]))
        ELSE results[category]]

\* accumulate_results: the value of analysis_results after the call
accumulate_results(results, frame_results, frame_number) ==
    [category \in (DOMAIN results) \cup (DOMAIN frame_results) |->
        IF category \in DOMAIN frame_results
        THEN Append(IF category \in DOMAIN results THEN results[category] ELSE EmptyList,
                    FrameEntry(frame_number, frame_results[category]))
        ELSE results[category]]

-----------------------------------------------------------------------------
(* The body of the frame loop of analyze_video *)

\* medical_analyzer as initialize_analyzers sets it
medical_analyzer == IF MEDICAL_ANALYZER_AVAILABLE THEN [py |-> "MedicalAnalyzer"] ELSE None

\* visualization_manager as initialize_analyzers sets it
visualization_manager ==
    IF VISUALIZATION_AVAILABLE THEN [py |-> "VisualizationManager"] ELSE None

\* the categories of frame_results, in the order the body fills them
FrameCategories == <<"human", "objects", "animals", "environment", "medical">>

\* the state of one execution of the body before its first statement
BodyStart == [raised |-> NoError, frame_results |-> EmptyDict, calls |-> <<>>,
              saved |-> None]

\* a step that calls the analyzer whatever its toggle says
AnalyzerStep_Always(st, cfg, toggle, category, payload, raise_at) ==
    IF st.raised # NoError THEN st
    ELSE IF raise_at = category
    THEN [st EXCEPT !.raised = "AnalyzerError", !.calls = Append(@, category)]
    ELSE [st EXCEPT !.frame_results = SetKey(@, category, payload),
                    !.calls = Append(@, category)]

\* if self.config['analysis'][toggle]: frame_results[category] = analyzer(frame)
\* raise_at names the category whose analyzer raises in this execution
AnalyzerStep(st, cfg, toggle, category, payload, raise_at) ==
    IF st.raised # NoError THEN st
    ELSE IF ~HasKey(cfg, "analysis") \/ ~HasKey(cfg["analysis"], toggle)
    THEN [st EXCEPT !.raised = "KeyError"]
    ELSE IF ~cfg["analysis"][toggle] THEN st
    ELSE IF raise_at = category
    THEN [st EXCEPT !.raised = "AnalyzerError", !.calls = Append(@, category)]
    ELSE [st EXCEPT !.frame_results = SetKey(@, category, payload),
                    !.calls = Append(@, category)]

\* if config['analysis'].get('medical_analysis', False) and medical_analyzer is not None
MedicalStep(st, cfg, raise_at) ==
    IF st.raised # NoError THEN st
    ELSE IF ~HasKey(cfg, "analysis") THEN [st EXCEPT !.raised = "KeyError"]
    ELSE IF ~(Get(cfg["analysis"], "medical_analysis", FALSE) /\ medical_analyzer # None)
    THEN st
    ELSE IF raise_at = "medical"
    THEN [st EXCEPT !.raised = "AnalyzerError", !.calls = Append(@, "medical")]
    ELSE [st EXCEPT !.frame_results = SetKey(@, "medical", analyze_anatomical_region(now)),
                    !.calls = Append(@, "medical")]

\* save_annotated_frame: the whole body is a try block whose handler logs
\* the exception and returns False; fails tells whether a statement of the
\* body (mkdir, the image, the JSON file) raises in this call
save_annotated_frame(fails) == [py |-> "bool", value |-> ~fails]

\* a save step in which the exception of save_annotated_frame reaches the
\* body of the loop
SaveStep_Raises(st, cfg, raise_at) ==
    IF st.raised # NoError THEN st
    ELSE IF ~HasKey(cfg, "output") \/ ~HasKey(cfg["output"], "save_frames")
    THEN [st EXCEPT !.raised = "KeyError"]
    ELSE IF ~cfg["output"]["save_frames"] THEN st
    ELSE IF raise_at = "save_annotated_frame"
    THEN [st EXCEPT !.raised = "AnalyzerError",
                    !.calls = Append(@, "save_annotated_frame")]
    ELSE [st EXCEPT !.calls = Append(@, "save_annotated_frame"),
                    !.saved = save_annotated_frame(FALSE)]

\* if config['output']['save_frames']: save_annotated_frame(...)
\* the value returned is dropped; raise_at = "save_annotated_frame" names an
\* execution in which the save fails
SaveStep(st, cfg, raise_at) ==
    IF st.raised # NoError THEN st
    ELSE IF ~HasKey(cfg, "output") \/ ~HasKey(cfg["output"], "save_frames")
    THEN [st EXCEPT !.raised = "KeyError"]
    ELSE IF ~cfg["output"]["save_frames"] THEN st
    ELSE [st EXCEPT !.calls = Append(@, "save_annotated_frame"),
                    !.saved = save_annotated_frame(raise_at = "save_annotated_frame")]

\* the statements of the try block up to the call of accumulate_results
FrameBody(cfg, raise_at) ==
    LET s1 == AnalyzerStep(BodyStart, cfg, "human_detection", "human",
                           analyze_frame, raise_at)
        s2 == AnalyzerStep(s1, cfg, "object_detection", "objects",
                           detect_objects, raise_at)
        s3 == AnalyzerStep(s2, cfg, "animal_detection", "animals",
                           detect_animals, raise_at)
        s4 == AnalyzerStep(s3, cfg, "environment_analysis", "environment",
                           analyze_environment, raise_at)
        s5 == MedicalStep(s4, cfg, raise_at)
    IN SaveStep(s5, cfg, raise_at)

-----------------------------------------------------------------------------
(* run_analysis and analyze_video *)

\* get_current_timestamp: the wall clock is not modelled
get_current_timestamp == "datetime.now().isoformat()"

\* Path(config['video']['input_path']) as a directory of the file system
InputDir(cfg) ==
    IF cfg["video"]["input_path"] = "videos/input/" THEN "videos/input"
    ELSE IF cfg["video"]["input_path"] = "clips/" THEN "clips"
    ELSE cfg["video"]["input_path"]

\* the files lying in a directory
FilesIn(dir, files) == IF dir = "videos/input" THEN files ELSE {}

\* a get_video_files that returns the list as the globs filled it
get_video_files_NoSet(cfg, dirs, files) ==
    IF InputDir(cfg) \notin dirs THEN <<>>
    ELSE GlobAll(FilesIn(InputDir(cfg), files), cfg["video"]["supported_formats"])

\* get_video_files: the list it returns.  (run_analysis reads no other file
\* of the directory afterwards, so the model keeps only these in fsFiles.)
get_video_files(cfg, dirs, files) ==
    IF InputDir(cfg) \notin dirs THEN <<>>
    ELSE SortedList(SeqToSet(GlobAll(FilesIn(InputDir(cfg), files),
                                     cfg["video"]["supported_formats"])))

\* a record that keeps the Path object where the code keeps its str()
NewResults_RawPath(cfg, video_path) ==
    [video_info |-> EmptyDict,
     human_analysis |-> EmptyList,
     object_detection |-> EmptyList,
     animal_detection |-> EmptyList,
     environment_analysis |-> EmptyList,
     medical_analysis |-> EmptyList,
     behavior_analysis |-> EmptyDict,
     metadata |-> [analysis_start_time |-> get_current_timestamp,
                   video_path |-> video_path,
                   video_name |-> video_path.stem,
                   analysis_config |-> cfg["analysis"]]]

\* a record that starts from the categories of the record returned before
NewResults_KeepPrevious(cfg, video_path) ==
    LET fresh == NewResults_RawPath(cfg, video_path)
        record == [fresh EXCEPT !["metadata"]["video_path"] = PathStr(video_path)]
    IN IF video_results = None THEN record
       ELSE [k \in (DOMAIN video_results) \cup (DOMAIN record) |->
                IF k \in DOMAIN video_results /\ k \notin {"video_info", "metadata"}
                THEN video_results[k] ELSE record[k]]

\* the record analyze_video starts from
NewResults(cfg, video_path) ==
    [video_info |-> EmptyDict,
     human_analysis |-> EmptyList,
     object_detection |-> EmptyList,
     animal_detection |-> EmptyList,
     environment_analysis |-> EmptyList,
     medical_analysis |-> EmptyList,
     behavior_analysis |-> EmptyDict,
     metadata |-> [analysis_start_time |-> get_current_timestamp,
                   video_path |-> PathStr(video_path),
                   video_name |-> video_path.stem,
                   analysis_config |-> cfg["analysis"]]]

\* a handler that reports the failed video as analysed
DegradedResults_Success(video_path, message) ==
    [video_info |-> [file_name |-> <<video_path.stem, video_path.suffix>>,
                     error |-> message],
     metadata |-> [analysis_start_time |-> get_current_timestamp,
                   analysis_end_time |-> get_current_timestamp,
                   analysis_success |-> TRUE,
                   error_message |-> message]]

\* the record the outer handler of analyze_video returns
DegradedResults(video_path, message) ==
    [video_info |-> [file_name |-> <<video_path.stem, video_path.suffix>>,
                     error |-> message],
     metadata |-> [analysis_start_time |-> get_current_timestamp,
                   analysis_end_time |-> get_current_timestamp,
                   analysis_success |-> FALSE,
                   error_message |-> message]]

\* final metadata that count the frames accumulated
FinalResults_Accumulated(results, frames_extracted) ==
    [results EXCEPT !["metadata"] =
        SetKey(SetKey(SetKey(@, "analysis_end_time", get_current_timestamp),
                      "total_frames_processed",
                      IF HasKey(results, "human") THEN Len(results["human"]) ELSE 0),
               "analysis_success", TRUE)]

\* the final metadata of a video that ran to the end of analyze_video
FinalResults(results, frames_extracted) ==
    [results EXCEPT !["metadata"] =
        SetKey(SetKey(SetKey(@, "analysis_end_time", get_current_timestamp),
                      "total_frames_processed", frames_extracted),
               "analysis_success", TRUE)]

\* a test that takes a record without the flag for a success
AnalysisSucceeded_DefaultTrue(results) ==
    Get(Get(results, "metadata", EmptyDict), "analysis_success", TRUE)

\* video_results.get('metadata', {}).get('analysis_success', False)
AnalysisSucceeded(results) ==
    Get(Get(results, "metadata", EmptyDict), "analysis_success", FALSE)

\* the video of the current iteration of run_analysis
CurrentVideo == video_files[video_index]

\* a loop that goes through the same video again
NextIteration_SameVideo ==
    /\ video_index' = video_index
    /\ pc' = IF Len(started) < MaxVideos THEN "analyze_video" ELSE "consolidate"

\* where run_analysis goes when an iteration of its loop ends
NextIteration ==
    IF video_index < Len(video_files)
    THEN /\ video_index' = video_index + 1
         /\ pc' = "analyze_video"
    ELSE /\ video_index' = video_index
         /\ pc' = "consolidate"

run_analysis ==
    /\ pc = "run_analysis"
    /\ IF ~HasKey(config, "video") \/ ~HasKey(config["video"], "input_path")
          \/ ~HasKey(config["video"], "supported_formats")
       THEN /\ pc' = "main_except"
            /\ log' = Append(log, [level |-> "error", where |-> "main",
                                   what |-> "KeyError"])
            /\ UNCHANGED <<video_files, video_index, fsDirs, fsFiles>>
       ELSE LET found == get_video_files(config, fsDirs, fsFiles) IN
            /\ video_files' = found
            /\ fsFiles' = SeqToSet(found)
            /\ fsDirs' = fsDirs \cup {InputDir(config)}
            /\ IF found = <<>>
               THEN /\ pc' = "done"
                    /\ video_index' = video_index
                    /\ log' = Append(log, [level |-> "warning",
                                           where |-> "run_analysis",
                                           what |-> "no video file"])
               ELSE /\ pc' = "analyze_video"
                    /\ video_index' = 1
                    /\ log' = log
    /\ UNCHANGED <<now, returned>>
    /\ UNCHANGED <<cfgFile, reports, config, analysis_results, total_frames,
                   i, video_results, all_results, successful_analyses,
                   failed_analyses, calls, called, skipped, reported, started,
                   consolidated, interrupted, faults>>

\* analyze_video without the early return
ZeroFrameReturn_Never(n) == FALSE

\* if total_frames == 0: return analysis_results
ZeroFrameReturn(n) == n = 0

\* analyze_video up to the frame loop.  outcome: the file is gone when
\* video_path.exists() is evaluated, or extract_frames fails inside, or neither.
analyze_video_begin(outcome) ==
    /\ pc = "analyze_video"
    /\ outcome # "ok" => faults < MaxFaults
    /\ faults' = IF outcome = "ok" THEN faults ELSE faults + 1
    /\ started' = Append(started, CurrentVideo)
    /\ calls' = <<>>
    /\ skipped' = {}
    /\ i' = 0
    /\ IF outcome = "gone"
       THEN LET message == <<"FileNotFoundError", PathStr(CurrentVideo)>> IN
            /\ fsFiles' = fsFiles \ {CurrentVideo}
            /\ called' = {}
            /\ log' = Append(log, [level |-> "error", where |-> "analyze_video",
                                   video |-> PathStr(CurrentVideo),
                                   what |-> message])
            /\ video_results' = DegradedResults(CurrentVideo, message)
            /\ analysis_results' = None
            /\ total_frames' = 0
            /\ pc' = "check_result"
       ELSE IF ~HasKey(config, "analysis")
       THEN LET message == <<"KeyError", "analysis">> IN
            /\ fsFiles' = fsFiles
            /\ called' = {}
            /\ log' = Append(log, [level |-> "error", where |-> "analyze_video",
                                   video |-> PathStr(CurrentVideo),
                                   what |-> message])
            /\ video_results' = DegradedResults(CurrentVideo, message)
            /\ analysis_results' = None
            /\ total_frames' = 0
            /\ pc' = "check_result"
       ELSE LET n == extract_frames(CurrentVideo, outcome = "extract_error")
                record == [NewResults(config, CurrentVideo)
                              EXCEPT !["video_info"] = get_video_info(CurrentVideo)]
            IN
            /\ fsFiles' = fsFiles
            /\ called' = {"extract_frames", "get_video_info"}
            /\ IF ZeroFrameReturn(n)
               THEN /\ log' = Append(log, [level |-> "warning",
                                           where |-> "analyze_video",
                                           video |-> PathStr(CurrentVideo),
                                           what |-> <<"no frame extracted">>])
                    /\ video_results' = record
                    /\ analysis_results' = None
                    /\ total_frames' = n
                    /\ pc' = "check_result"
               ELSE /\ log' = log
                    /\ video_results' = video_results
                    /\ analysis_results' = record
                    /\ total_frames' = n
                    /\ pc' = "frame_loop"
    /\ UNCHANGED <<now, returned>>
    /\ UNCHANGED <<cfgFile, fsDirs, reports, config, video_files, video_index,
                   all_results, successful_analyses, failed_analyses, reported,
                   consolidated, interrupted>>

\* a loop that takes every other frame
NextFrame_EveryOther(raised, frame_number) == frame_number + 2

\* a loop that runs the same frame again after its body raised
NextFrame_Retry(raised, frame_number) ==
    IF raised = NoError THEN frame_number + 1 ELSE frame_number

\* the index enumerate() gives the iteration that follows, whether the body
\* ended normally or its handler ran (continue)
NextFrame(raised, frame_number) == frame_number + 1

\* one iteration of the frame loop: the try block and its handler
analyze_frame_step(raise_at) ==
    /\ pc = "frame_loop"
    /\ i < total_frames
    /\ raise_at # NoError =>
          /\ faults < MaxFaults
          /\ \/ FrameBody(config, raise_at).raised = "AnalyzerError"
             \/ FrameBody(config, raise_at).saved = save_annotated_frame(TRUE)
    /\ LET st == FrameBody(config, raise_at) IN
       /\ calls' = IF st.raised = NoError
                   THEN Append(st.calls, "accumulate_results") ELSE st.calls
       /\ called' = called \cup SeqToSet(calls')
       /\ IF st.raised = NoError
          THEN /\ analysis_results' =
                      accumulate_results(analysis_results, st.frame_results, i)
               /\ log' = IF st.saved = save_annotated_frame(TRUE)
                          THEN Append(log, [level |-> "error",
                                            where |-> "save_annotated_frame",
                                            frame |-> i, what |-> "Exception"])
                          ELSE log
          ELSE /\ analysis_results' = analysis_results
               /\ log' = Append(log, [level |-> "error", where |-> "frame",
                                      frame |-> i, what |-> st.raised])
       /\ skipped' = IF st.raised = NoError THEN skipped ELSE skipped \cup {i}
       /\ i' = NextFrame(st.raised, i)
    /\ faults' = IF raise_at = NoError THEN faults ELSE faults + 1
    /\ pc' = "frame_loop"
    /\ UNCHANGED <<now, returned>>
    /\ UNCHANGED <<cfgFile, fsDirs, fsFiles, reports, config, video_files,
                   video_index, total_frames, video_results, all_results,
                   successful_analyses, failed_analyses, reported, started,
                   consolidated, interrupted>>

\* a loop exit that goes straight to the visualizations
frame_loop_exit_SkipBehavior ==
    /\ pc = "frame_loop"
    /\ i >= total_frames
    /\ pc' = "visualize"
    /\ UNCHANGED <<now, returned>>
    /\ UNCHANGED <<cfgFile, fsDirs, fsFiles, reports, config, video_files,
                   video_index, analysis_results, total_frames, i, video_results,
                   all_results, successful_analyses, failed_analyses, log, calls,
                   called, skipped, reported, started, consolidated, interrupted,
                   faults>>

\* the frame loop has gone through the list of frames
frame_loop_exit ==
    /\ pc = "frame_loop"
    /\ i >= total_frames
    /\ pc' = "behavior"
    /\ UNCHANGED <<now, returned>>
    /\ UNCHANGED <<cfgFile, fsDirs, fsFiles, reports, config, video_files,
                   video_index, analysis_results, total_frames, i, video_results,
                   all_results, successful_analyses, failed_analyses, log, calls,
                   called, skipped, reported, started, consolidated, interrupted,
                   faults>>

\* the handler of the outer try of analyze_video
analyze_video_except(message) ==
    /\ log' = Append(log, [level |-> "error", where |-> "analyze_video",
                           video |-> PathStr(CurrentVideo), what |-> message])
    /\ video_results' = DegradedResults(CurrentVideo, message)
    /\ analysis_results' = None
    /\ total_frames' = total_frames
    /\ i' = 0
    /\ pc' = "check_result"

\* the global behavior analysis after the frame loop
behavior(raises) ==
    /\ pc = "behavior"
    /\ raises => faults < MaxFaults
    /\ IF ~HasKey(config["analysis"], "behavior_analysis")
       THEN /\ ~raises
            /\ analyze_video_except(<<"KeyError", "behavior_analysis">>)
            /\ UNCHANGED <<called, faults>>
       ELSE IF ~config["analysis"]["behavior_analysis"]
       THEN /\ ~raises
            /\ pc' = "visualize"
            /\ UNCHANGED <<analysis_results, log, video_results, total_frames, i,
                           called, faults>>
       ELSE /\ called' = called \cup {"analyze_behavior"}
            /\ faults' = IF raises THEN faults + 1 ELSE faults
            /\ IF raises
               THEN /\ log' = Append(log, [level |-> "error", where |-> "behavior",
                                           video |-> PathStr(CurrentVideo),
                                           what |-> <<"AnalyzerError">>])
                    /\ analysis_results' =
                          [analysis_results EXCEPT !["behavior_analysis"] = EmptyDict]
               ELSE /\ log' = log
                    /\ analysis_results' =
                          [analysis_results EXCEPT !["behavior_analysis"] = analyze_behavior]
            /\ pc' = "visualize"
            /\ UNCHANGED <<video_results, total_frames, i>>
    /\ UNCHANGED <<now, returned>>
    /\ UNCHANGED <<cfgFile, fsDirs, fsFiles, reports, config, video_files,
                   video_index, all_results, successful_analyses, failed_analyses,
                   calls, skipped, reported, started, consolidated, interrupted>>

\* create_visualizations: the charts it asks the visualization manager for
ChartsRequested(results) ==
    {"create_analysis_dashboard", "create_detection_heatmap",
     "create_summary_infographic"}
    \cup (IF HasKey(results, "medical_analysis") /\ results["medical_analysis"] # EmptyList
          THEN {"create_medical_analysis_chart"} ELSE {})

\* the visualization stage of analyze_video; every chart method catches its
\* own exceptions, and create_visualizations catches the rest
visualize(raises) ==
    /\ pc = "visualize"
    /\ raises => faults < MaxFaults
    /\ IF ~HasKey(config, "output")
       THEN /\ ~raises
            /\ analyze_video_except(<<"KeyError", "output">>)
            /\ UNCHANGED <<called, faults>>
       ELSE IF ~(Get(config["output"], "create_visualizations", TRUE)
                 /\ visualization_manager # None)
       THEN /\ ~raises
            /\ pc' = "finish_video"
            /\ UNCHANGED <<analysis_results, log, video_results, total_frames, i,
                           called, faults>>
       ELSE /\ called' = called \cup {"create_visualizations"}
                                \cup ChartsRequested(analysis_results)
            /\ faults' = IF raises THEN faults + 1 ELSE faults
            /\ log' = IF raises
                      THEN Append(log, [level |-> "error", where |-> "visualization",
                                        video |-> PathStr(CurrentVideo),
                                        what |-> <<"ChartError">>])
                      ELSE log
            /\ pc' = "finish_video"
            /\ UNCHANGED <<analysis_results, video_results, total_frames, i>>
    /\ UNCHANGED <<now, returned>>
    /\ UNCHANGED <<cfgFile, fsDirs, fsFiles, reports, config, video_files,
                   video_index, all_results, successful_analyses, failed_analyses,
                   calls, skipped, reported, started, consolidated, interrupted>>

\* the final metadata and the return of analyze_video
finish_video ==
    /\ pc = "finish_video"
    /\ video_results' = FinalResults(analysis_results, total_frames)
    /\ analysis_results' = None
    /\ i' = 0
    /\ pc' = "check_result"
    /\ UNCHANGED <<now, returned>>
    /\ UNCHANGED <<cfgFile, fsDirs, fsFiles, reports, config, video_files,
                   video_index, total_frames, all_results, successful_analyses,
                   failed_analyses, log, calls, called, skipped, reported, started,
                   consolidated, interrupted, faults>>

\* run_analysis after analyze_video has returned
check_result ==
    /\ pc = "check_result"
    /\ IF AnalysisSucceeded(video_results)
       THEN /\ all_results' = SetKey(all_results, CurrentVideo.stem, video_results)
            /\ successful_analyses' = successful_analyses + 1
            /\ failed_analyses' = failed_analyses
            /\ pc' = "report"
            /\ video_index' = video_index
       ELSE /\ all_results' = all_results
            /\ successful_analyses' = successful_analyses
            /\ failed_analyses' = failed_analyses + 1
            /\ NextIteration
    /\ UNCHANGED <<now, returned>>
    /\ UNCHANGED <<cfgFile, fsDirs, fsFiles, reports, config, video_files,
                   analysis_results, total_frames, i, video_results, log, calls,
                   called, skipped, reported, started, consolidated, interrupted,
                   faults>>

-----------------------------------------------------------------------------
(* ReportGenerator *)

RECURSIVE CountField(_, _)
\* the loop of _count_people, _count_objects and _count_animals:
\* count += frame_data.get('data', {}).get(field, 0)
CountField(entries, field) ==
    IF entries = <<>> THEN 0
    ELSE Get(Get(Head(entries), "data", EmptyDict), field, 0)
         + CountField(Tail(entries), field)

\* a counter that reads the category the record was created with
_count_people_AsCreated(results) ==
    IF HasKey(results, "human_analysis")
    THEN CountField(results["human_analysis"], "people_detected")
    ELSE 0

_count_people(results) ==
    IF HasKey(results, "human") THEN CountField(results["human"], "people_detected")
    ELSE 0

_count_objects(results) ==
    IF HasKey(results, "objects") THEN CountField(results["objects"], "total_objects")
    ELSE 0

_count_animals(results) ==
    IF HasKey(results, "animals") THEN CountField(results["animals"], "total_animals")
    ELSE 0

\* the name of the file generate_report writes: f"{video_name}_report.json"
ReportFile(video_name) == <<video_name, "_report.json">>

\* report_data of generate_report
ReportData(results, video_name) ==
    [video_name |-> video_name,
     analysis_timestamp |-> get_current_timestamp,
     summary |-> "Relatorio gerado em modo placeholder",
     statistics |-> [people_detected |-> _count_people(results),
                     objects_detected |-> _count_objects(results),
                     animals_detected |-> _count_animals(results)],
     results |-> results]

\* What json.load reads back from what json.dump(..., default=str) wrote.
\* Every payload of the analyzers, and every other value the driver puts
\* into a record, is made of dictionaries with string keys, lists, strings,
\* numbers and booleans, which JSON holds as they are; the model follows
\* the values that may be objects.

\* a value json cannot serialize goes through default=str: a Path object is
\* written as str(path) and read back as that string
JsonDefault(v) == IF HasKey(v, "py") THEN v ELSE PathStr(v)

\* a float is written as repr(x), which float() reads back as x
JsonFloat(x) == TrueDiv(x.num, x.den)

\* a dictionary of which one member may be an object
JsonMembers(d, member) ==
    [m \in DOMAIN d |-> IF m = member THEN JsonDefault(d[m]) ELSE d[m]]

\* a list of per-frame entries
JsonEntries(entries) ==
    [n \in DOMAIN entries |->
        [frame |-> entries[n].frame,
         timestamp |-> JsonFloat(entries[n].timestamp),
         data |-> entries[n].data]]

\* a results record
JsonResults(results) ==
    [k \in DOMAIN results |->
        IF k = "metadata" THEN JsonMembers(results[k], "video_path")
        ELSE IF k = "video_info" THEN JsonMembers(results[k], "file_path")
        ELSE IF k = "behavior_analysis" THEN results[k]
        ELSE JsonEntries(results[k])]

\* the document a report file holds once report_data has been dumped to it
JsonDocument(report_data) ==
    [report_data EXCEPT !["results"] = JsonResults(@)]

\* the reports directory after generate_report(analysis_results, video_name)
generate_report(files, results, video_name) ==
    SetKey(files, ReportFile(video_name), JsonDocument(ReportData(results, video_name)))

\* consolidated_data of generate_consolidated_report
ConsolidatedData(results) ==
    [total_videos |-> Cardinality(DOMAIN results),
     analysis_timestamp |-> get_current_timestamp,
     video_names |-> DOMAIN results]

-----------------------------------------------------------------------------
(* run_analysis: the report of a video, the consolidated report *)

\* a report step without the inner try: the exception of generate_report
\* reaches the handler of the loop, which counts a failure
report_Propagates(raises) ==
    /\ pc = "report"
    /\ raises => faults < MaxFaults
    /\ IF ~HasKey(config, "output") \/ ~HasKey(config["output"], "generate_report")
       THEN \* KeyError, caught by the except Exception clause of the loop
            /\ ~raises
            /\ failed_analyses' = failed_analyses + 1
            /\ log' = Append(log, [level |-> "error", where |-> "run_analysis",
                                   video |-> PathStr(CurrentVideo),
                                   what |-> <<"KeyError", "generate_report">>])
            /\ UNCHANGED <<reports, reported, called, faults>>
       ELSE IF ~config["output"]["generate_report"]
       THEN /\ ~raises
            /\ UNCHANGED <<reports, reported, called, faults, log, failed_analyses>>
       ELSE /\ called' = called \cup {"generate_report"}
            /\ faults' = IF raises THEN faults + 1 ELSE faults
            /\ failed_analyses' = IF raises THEN failed_analyses + 1 ELSE failed_analyses
            /\ IF raises
               THEN /\ reports' = reports
                    /\ reported' = reported
                    /\ log' = Append(log, [level |-> "error", where |-> "report",
                                           video |-> PathStr(CurrentVideo),
                                           what |-> <<"OSError">>])
               ELSE /\ reports' = generate_report(reports, video_results,
                                                  CurrentVideo.stem)
                    /\ reported' = Append(reported, CurrentVideo)
                    /\ log' = log
    /\ NextIteration
    /\ UNCHANGED <<now, returned>>
    /\ UNCHANGED <<cfgFile, fsDirs, fsFiles, config, video_files, analysis_results,
                   total_frames, i, video_results, all_results, successful_analyses,
                   calls, skipped, started, consolidated, interrupted>>

\* the individual report of a video whose analysis succeeded
report(raises) ==
    /\ pc = "report"
    /\ raises => faults < MaxFaults
    /\ IF ~HasKey(config, "output") \/ ~HasKey(config["output"], "generate_report")
       THEN \* KeyError, caught by the except Exception clause of the loop
            /\ ~raises
            /\ failed_analyses' = failed_analyses + 1
            /\ log' = Append(log, [level |-> "error", where |-> "run_analysis",
                                   video |-> PathStr(CurrentVideo),
                                   what |-> <<"KeyError", "generate_report">>])
            /\ UNCHANGED <<reports, reported, called, faults>>
       ELSE IF ~config["output"]["generate_report"]
       THEN /\ ~raises
            /\ UNCHANGED <<reports, reported, called, faults, log, failed_analyses>>
       ELSE /\ called' = called \cup {"generate_report"}
            /\ faults' = IF raises THEN faults + 1 ELSE faults
            /\ failed_analyses' = failed_analyses
            /\ IF raises
               THEN /\ reports' = reports
                    /\ reported' = reported
                    /\ log' = Append(log, [level |-> "error", where |-> "report",
                                           video |-> PathStr(CurrentVideo),
                                           what |-> <<"OSError">>])
               ELSE /\ reports' = generate_report(reports, video_results,
                                                  CurrentVideo.stem)
                    /\ reported' = Append(reported, CurrentVideo)
                    /\ log' = log
    /\ NextIteration
    /\ UNCHANGED <<now, returned>>
    /\ UNCHANGED <<cfgFile, fsDirs, fsFiles, config, video_files, analysis_results,
                   total_frames, i, video_results, all_results, successful_analyses,
                   calls, skipped, started, consolidated, interrupted>>

\* a loop without the except KeyboardInterrupt clause: the interruption
\* leaves run_analysis and reaches main()
KeyboardInterrupt_Uncaught ==
    /\ pc \in InVideo
    /\ interrupted' = video_index
    /\ analysis_results' = None
    /\ total_frames' = 0
    /\ i' = 0
    /\ calls' = <<>>
    /\ called' = {}
    /\ skipped' = {}
    /\ pc' = "main_except"
    /\ UNCHANGED <<now, returned>>
    /\ UNCHANGED <<cfgFile, fsDirs, fsFiles, reports, config, video_files,
                   video_index, video_results, all_results, successful_analyses,
                   failed_analyses, log, reported, started, consolidated, faults>>

\* KeyboardInterrupt while a video is being processed: no handler inside
\* analyze_video catches it (they catch Exception), the loop of run_analysis
\* catches it and breaks
KeyboardInterrupt ==
    /\ pc \in InVideo
    /\ interrupted' = video_index
    /\ analysis_results' = None
    /\ total_frames' = 0
    /\ i' = 0
    /\ calls' = <<>>
    /\ called' = {}
    /\ skipped' = {}
    /\ pc' = "consolidate"
    /\ UNCHANGED <<now, returned>>
    /\ UNCHANGED <<cfgFile, fsDirs, fsFiles, reports, config, video_files,
                   video_index, video_results, all_results, successful_analyses,
                   failed_analyses, log, reported, started, consolidated, faults>>

\* a guard that consolidates as soon as there is any result
ShouldConsolidate_Any(results) == Cardinality(DOMAIN results) > 0

\* if len(all_results) > 1
ShouldConsolidate(results) == Cardinality(DOMAIN results) > 1

\* after the loop: the consolidated report, when there is more than one result
consolidate(raises) ==
    /\ pc = "consolidate"
    /\ raises => faults < MaxFaults /\ ShouldConsolidate(all_results)
    /\ faults' = IF raises THEN faults + 1 ELSE faults
    /\ IF ShouldConsolidate(all_results)
       THEN /\ consolidated' = Append(consolidated, ConsolidatedData(all_results))
            /\ log' = IF raises
                      THEN Append(log, [level |-> "error", where |-> "consolidated",
                                        what |-> <<"OSError">>])
                      ELSE log
       ELSE UNCHANGED <<consolidated, log>>
    /\ pc' = "done"
    /\ UNCHANGED <<now, returned>>
    /\ UNCHANGED <<cfgFile, fsDirs, fsFiles, reports, config, video_files,
                   video_index, analysis_results, total_frames, i, video_results,
                   all_results, successful_analyses, failed_analyses, calls, called,
                   skipped, reported, started, interrupted>>

-----------------------------------------------------------------------------

Next ==
    \/ load_config
    \/ setup_logging
    \/ setup_directories
    \/ initialize_analyzers
    \/ run_analysis
    \/ \E outcome \in {"ok", "gone", "extract_error"} : analyze_video_begin(outcome)
    \/ \E raise_at \in {NoError, "save_annotated_frame"} \cup SeqToSet(FrameCategories) :
          analyze_frame_step(raise_at)
    \/ frame_loop_exit
    \/ \E raises \in BOOLEAN : behavior(raises)
    \/ \E raises \in BOOLEAN : visualize(raises)
    \/ finish_video
    \/ check_result
    \/ \E raises \in BOOLEAN : report(raises)
    \/ KeyboardInterrupt
    \/ \E raises \in BOOLEAN : consolidate(raises)

Spec == Init /\ [][Next]_vars

-----------------------------------------------------------------------------
(* The analyzers called on their own, as any code holding the objects that *)
(* initialize_analyzers creates can call them: any analyzer, on any frame, *)
(* at any time.                                                            *)

\* the frames handed to the analyzers
Frames == {"frame_0", "frame_1"}

\* the system has been constructed with the default configuration
StubInit ==
    /\ cfgFile = [state |-> "closed", doc |-> None]
    /\ fsDirs = {"output", "output/reports", "output/frames", "output/visualizations",
                 "output/metadata", "videos/input"}
    /\ fsFiles = {}
    /\ reports = EmptyDict
    /\ pc = "analyzers"
    /\ config = get_default_config
    /\ video_files = <<>>
    /\ video_index = 0
    /\ analysis_results = None
    /\ total_frames = 0
    /\ i = 0
    /\ video_results = None
    /\ all_results = EmptyDict
    /\ successful_analyses = 0
    /\ failed_analyses = 0
    /\ log = <<>>
    /\ calls = <<>>
    /\ called = {}
    /\ skipped = {}
    /\ reported = <<>>
    /\ started = <<>>
    /\ consolidated = <<>>
    /\ interrupted = 0
    /\ faults = 0
    /\ now = 0
    /\ returned = <<>>

\* what a call leaves unchanged: everything but the history of the calls
\* (the medical analyzer writes a line to its own logger, which is not the
\* logger of VideoAnalysisSystem)
Returns(analyzer, frame, payload) ==
    /\ pc = "analyzers"
    /\ Len(returned) < MaxCalls
    /\ returned' = Append(returned, [analyzer |-> analyzer, frame |-> frame,
                                     payload |-> payload])
    /\ UNCHANGED <<cfgFile, fsDirs, fsFiles, reports, pc, config, video_files,
                   video_index, analysis_results, total_frames, i, video_results,
                   all_results, successful_analyses, failed_analyses, log, calls,
                   called, skipped, reported, started, consolidated, interrupted,
                   faults, now>>

call_analyze_frame(frame) == Returns("analyze_frame", frame, analyze_frame)

call_detect_objects(frame) == Returns("detect_objects", frame, detect_objects)

call_detect_animals(frame) == Returns("detect_animals", frame, detect_animals)

call_analyze_environment(frame) ==
    Returns("analyze_environment", frame, analyze_environment)

call_analyze_anatomical_region(frame) ==
    Returns("analyze_anatomical_region", frame, analyze_anatomical_region(now))

call_analyze_behavior(frame) == Returns("analyze_behavior", frame, analyze_behavior)

\* time passes
tick ==
    /\ pc = "analyzers"
    /\ now < MaxClock
    /\ now' = now + 1
    /\ UNCHANGED <<cfgFile, fsDirs, fsFiles, reports, pc, config, video_files,
                   video_index, analysis_results, total_frames, i, video_results,
                   all_results, successful_analyses, failed_analyses, log, calls,
                   called, skipped, reported, started, consolidated, interrupted,
                   faults, returned>>

StubNext ==
    \/ \E frame \in Frames : call_analyze_frame(frame)
    \/ \E frame \in Frames : call_detect_objects(frame)
    \/ \E frame \in Frames : call_detect_animals(frame)
    \/ \E frame \in Frames : call_analyze_environment(frame)
    \/ \E frame \in Frames : call_analyze_anatomical_region(frame)
    \/ \E frame \in Frames : call_analyze_behavior(frame)
    \/ tick

StubSpec == StubInit /\ [][StubNext]_vars

-----------------------------------------------------------------------------

(* Properties *)

\* the keys of a results record that hold lists of per-frame entries
PerFrameKeys(results) == (DOMAIN results) \ {"video_info", "metadata", "behavior_analysis"}

\* the outer handler of analyze_video has logged an exception for the
\* video of the current iteration
VideoRaised ==
    \E n \in DOMAIN log :
        /\ log[n].level = "error"
        /\ log[n].where = "analyze_video"
        /\ log[n].video = PathStr(CurrentVideo)

\* C1: an iteration of the frame loop whose body raises logs the error of
\* that frame, leaves the results as they were and moves to the next frame
\* index like an iteration that succeeds; the loop leaves only to the
\* behavior stage, once every frame has had its iteration.
C1_FrameFailureIsSkipped ==
    [][(pc = "frame_loop" /\ pc' # "consolidate") =>
          IF i < total_frames
          THEN /\ i' = i + 1
               /\ pc' = "frame_loop"
               /\ total_frames' = total_frames
               /\ skipped' # skipped =>
                     /\ skipped' = skipped \cup {i}
                     /\ analysis_results' = analysis_results
                     /\ Len(log') = Len(log) + 1
                     /\ log'[Len(log')].level = "error"
                     /\ log'[Len(log')].where = "frame"
                     /\ log'[Len(log')].frame = i
          ELSE /\ pc' = "behavior"
               /\ i = total_frames
               /\ analysis_results' = analysis_results]_vars

\* a video has returned from analyze_video as analysed although one of its
\* frames raised, and a frame after the failed one has its entry
C1_Witness ==
    /\ pc = "check_result"
    /\ AnalysisSucceeded(video_results)
    /\ HasKey(video_results, "human")
    /\ \E f \in skipped : \E n \in DOMAIN video_results["human"] :
          video_results["human"][n].frame > f

\* C2: when an exception leaves the body of analyze_video, the record it
\* returns has analysis_success = False and the text of the exception as
\* error_message; and the videos passed to analyze_video are the videos
\* found, in order: when the loop ends without an interruption every video
\* found has been passed to analyze_video.
C2_VideoFailureIsDegraded ==
    /\ (pc = "check_result" /\ VideoRaised) =>
          /\ HasKey(video_results, "metadata")
          /\ Get(video_results["metadata"], "analysis_success", TRUE) = FALSE
          /\ HasKey(video_results["metadata"], "error_message")
          /\ \E n \in DOMAIN log :
                /\ log[n].where = "analyze_video"
                /\ log[n].level = "error"
                /\ log[n].what = video_results["metadata"]["error_message"]
    /\ Len(started) <= Len(video_files)
    /\ \A n \in DOMAIN started : started[n] = video_files[n]
    /\ (pc \in {"consolidate", "done"} /\ interrupted = 0) => started = video_files

\* the first video failed with an exception and the second one has been
\* passed to analyze_video
C2_Witness ==
    /\ Len(started) = 2
    /\ pc = "frame_loop"
    /\ failed_analyses = 1
    /\ \E n \in DOMAIN log :
          /\ log[n].level = "error"
          /\ log[n].where = "analyze_video"
          /\ log[n].video = PathStr(video_files[1])

\* C3: the reports directory holds one report per video reported: as many
\* report files as videos whose report was written, and for each of these
\* videos a report that embeds the results of that video, with the summary
\* counts of those results.
C3_OneReportPerVideo ==
    /\ Cardinality(DOMAIN reports) = Len(reported)
    /\ \A n \in DOMAIN reported :
          \E file \in DOMAIN reports :
             /\ reports[file]["results"]["metadata"]["video_path"] = PathStr(reported[n])
             /\ reports[file]["statistics"]["people_detected"]
                   = _count_people(reports[file]["results"])

\* C4 as stated: a run that was not interrupted and passed more than one
\* video to analyze_video has called generate_consolidated_report exactly
\* once when it ends, and a run that passed a single video has not called it.
C4_ConsolidatedWhenSeveralVideos ==
    (pc = "done" /\ interrupted = 0) =>
        /\ Len(started) > 1 => Len(consolidated) = 1
        /\ Len(started) = 1 => Len(consolidated) = 0

\* C4 amended: generate_consolidated_report is called only by the step that
\* follows the loop, at most once, and exactly when all_results holds more
\* than one entry at that point; the document it writes counts those entries.
C4_ConsolidatedWhenSeveralResults ==
    /\ pc # "done" => consolidated = <<>>
    /\ pc = "done" =>
          /\ Len(consolidated) = IF Cardinality(DOMAIN all_results) > 1 THEN 1 ELSE 0
          /\ \A n \in DOMAIN consolidated :
                /\ consolidated[n].total_videos = Cardinality(DOMAIN all_results)
                /\ consolidated[n].video_names = DOMAIN all_results

\* two videos were analysed with success and the consolidated report of
\* both has been written
C4_Witness ==
    /\ pc = "done"
    /\ successful_analyses = 2
    /\ Len(consolidated) = 1
    /\ consolidated[1].total_videos = 2

C6_ZeroFramesNothingDownstream ==
    (pc = "check_result" /\ "extract_frames" \in called /\ total_frames = 0) =>
        /\ called = {"extract_frames", "get_video_info"}
        /\ calls = <<>>
        /\ \A k \in PerFrameKeys(video_results) : video_results[k] = EmptyList
        /\ video_results["behavior_analysis"] = EmptyDict

\* a video whose extraction gave no frame has returned from analyze_video
C6_Witness ==
    /\ pc = "check_result"
    /\ "extract_frames" \in called
    /\ total_frames = 0
    /\ PerFrameKeys(video_results) # {}

RECURSIVE Ascending(_)
\* the members of a set of numbers in increasing order
Ascending(S) ==
    IF S = {} THEN <<>>
    ELSE LET m == CHOOSE x \in S : \A y \in S : x <= y
         IN <<m>> \o Ascending(S \ {m})

\* the frame indices of a list of per-frame entries
FrameIndices(entries) == [n \in DOMAIN entries |-> entries[n].frame]

\* C7 as stated: at the end of analyze_video the k-th entry of every
\* category has frame = k, counting from 0.
C7_FramesContiguous ==
    (pc = "check_result" /\ AnalysisSucceeded(video_results)) =>
        \A k \in PerFrameKeys(video_results) :
            \A n \in DOMAIN video_results[k] : video_results[k][n].frame = n - 1

\* C7 amended: at the end of analyze_video the frame indices of every
\* non-empty category are the indices of the frames whose body did not
\* raise, in increasing order.
C7_FramesAreTheFramesNotSkipped ==
    (pc = "check_result" /\ AnalysisSucceeded(video_results)) =>
        \A k \in PerFrameKeys(video_results) :
            video_results[k] # EmptyList =>
                FrameIndices(video_results[k])
                    = Ascending((0 .. total_frames - 1) \ skipped)

\* frame 0 was skipped and the first entry of the human category is frame 1
C7_Witness ==
    /\ pc = "check_result"
    /\ AnalysisSucceeded(video_results)
    /\ 0 \in skipped
    /\ HasKey(video_results, "human")
    /\ video_results["human"] # EmptyList
    /\ video_results["human"][1].frame = 1

\* the entries of a list are in increasing frame order and each timestamp
\* is the frame index divided by 30
EntriesInOrderWithTimestamp(entries) ==
    \A n \in DOMAIN entries :
        /\ entries[n].timestamp.den > 0
        /\ entries[n].timestamp.num * 30 = entries[n].frame * entries[n].timestamp.den
        /\ n > 1 => entries[n - 1].frame < entries[n].frame

ResultsInOrderWithTimestamp(results) ==
    results # None =>
        \A k \in PerFrameKeys(results) : EntriesInOrderWithTimestamp(results[k])

\* C8: in every category of every results record (the one being built, the
\* one returned, the ones stored for earlier videos) the frame indices
\* increase strictly in append order and timestamp = frame / 30.
C8_OrderAndTimestamp ==
    /\ ResultsInOrderWithTimestamp(analysis_results)
    /\ ResultsInOrderWithTimestamp(video_results)
    /\ \A name \in DOMAIN all_results : ResultsInOrderWithTimestamp(all_results[name])

\* the record being built holds the entries of frames 0 to 3 and frame 3
\* has the timestamp 1/10 s
C8_Witness ==
    /\ pc = "frame_loop"
    /\ analysis_results # None
    /\ HasKey(analysis_results, "objects")
    /\ Len(analysis_results["objects"]) = 4
    /\ analysis_results["objects"][4].frame = 3
    /\ analysis_results["objects"][4].timestamp = [num |-> 1, den |-> 10]

\* C9: when the configuration file is missing, cannot be read or cannot be
\* parsed, load_config returns the configuration of get_default_config.
C9_DefaultConfigOnFailure ==
    (pc \in {"setup_logging", "setup_directories", "initialize_analyzers", "main_except"}
     /\ cfgFile.state \in {"missing", "unreadable", "malformed"}) =>
        /\ config = get_default_config
        /\ DOMAIN config = {"video", "analysis", "output", "medical_settings"}

\* load_config has returned the defaults for a file that is not YAML
C9_Witness ==
    /\ pc = "setup_directories"
    /\ cfgFile.state = "malformed"
    /\ config = get_default_config

\* C10: the record being built has the categories it was created with, and
\* every per-frame entry holds a frame index, a timestamp and a payload.
C10_CategoriesAsCreated ==
    (pc = "frame_loop" /\ analysis_results # None) =>
        /\ DOMAIN analysis_results = DOMAIN NewResults(config, CurrentVideo)
        /\ \A k \in PerFrameKeys(analysis_results) :
              \A n \in DOMAIN analysis_results[k] :
                 DOMAIN analysis_results[k][n] = {"frame", "timestamp", "data"}

RECURSIVE Total(_, _, _)
\* the sum of a payload field over the first n entries of a list
Total(entries, field, n) ==
    IF n = 0 THEN 0
    ELSE Total(entries, field, n - 1) + entries[n]["data"][field]

\* the total of a payload field over a category of a results record
CategoryTotal(results, category, field) ==
    IF HasKey(results, category)
    THEN Total(results[category], field, Len(results[category]))
    ELSE 0

\* C11: in every report written, people_detected, objects_detected and
\* animals_detected are the sums of people_detected, total_objects and
\* total_animals over the entries of the human, objects and animals
\* categories of the results the report embeds (0 without entries).
C11_CountsAreTotals ==
    \A file \in DOMAIN reports :
        LET doc == reports[file] IN
        /\ doc["statistics"]["people_detected"]
              = CategoryTotal(doc["results"], "human", "people_detected")
        /\ doc["statistics"]["objects_detected"]
              = CategoryTotal(doc["results"], "objects", "total_objects")
        /\ doc["statistics"]["animals_detected"]
              = CategoryTotal(doc["results"], "animals", "total_animals")

\* a report has been written for a video of which one frame was skipped:
\* nine people and twenty-seven objects in nine entries
C11_Witness ==
    \E file \in DOMAIN reports :
        /\ HasKey(reports[file]["results"], "objects")
        /\ Len(reports[file]["results"]["objects"]) = 9
        /\ reports[file]["statistics"]["people_detected"] = 9
        /\ reports[file]["statistics"]["objects_detected"] = 27

\* the toggles of the analysis configuration and the category each one guards
Toggles ==
    {[toggle |-> "human_detection", category |-> "human"],
     [toggle |-> "object_detection", category |-> "objects"],
     [toggle |-> "animal_detection", category |-> "animals"],
     [toggle |-> "environment_analysis", category |-> "environment"],
     [toggle |-> "medical_analysis", category |-> "medical"]}

\* the toggle is on in the configuration of the run (and, for the medical
\* analysis, the analyzer is available)
ToggleOn(toggle) ==
    IF toggle = "medical_analysis"
    THEN Get(config["analysis"], toggle, FALSE) /\ medical_analyzer # None
    ELSE config["analysis"][toggle]

\* the frames of a results record that have an entry in a category
FramesOf(results, category) ==
    IF HasKey(results, category)
    THEN {results[category][n].frame : n \in DOMAIN results[category]}
    ELSE {}

\* a results record agrees with the toggles: no entry in a category whose
\* toggle is off, an entry for each of the frames accumulated in a category
\* whose toggle is on
AgreesWithToggles(results, accumulated) ==
    \A t \in Toggles :
        IF ToggleOn(t.toggle)
        THEN FramesOf(results, t.category) = accumulated
        ELSE FramesOf(results, t.category) = {}

\* C12: while a video is analysed and when it has been analysed, an analyzer
\* whose toggle is off has not been called for any of its frames and its
\* category has no entry; a category whose toggle is on has an entry for
\* every frame that was accumulated (every frame handled so far whose body
\* did not raise).  The records stored for earlier videos have no entry in a
\* category that is off.
C12_TogglesDecideCategories ==
    /\ (pc \in {"frame_loop", "behavior", "visualize", "finish_video"}) =>
          /\ AgreesWithToggles(analysis_results, (0 .. i - 1) \ skipped)
          /\ \A t \in Toggles : ~ToggleOn(t.toggle) => t.category \notin called
    /\ (pc = "check_result" /\ AnalysisSucceeded(video_results)) =>
          /\ AgreesWithToggles(video_results, (0 .. total_frames - 1) \ skipped)
          /\ \A t \in Toggles : ~ToggleOn(t.toggle) => t.category \notin called
    /\ \A name \in DOMAIN all_results :
          \A t \in Toggles :
              ~ToggleOn(t.toggle) => FramesOf(all_results[name], t.category) = {}

\* a video has been analysed with object detection off and human detection
\* on: ten human entries, the object detector never called, no object entry
C12_Witness ==
    /\ pc = "check_result"
    /\ AnalysisSucceeded(video_results)
    /\ ~config["analysis"]["object_detection"]
    /\ config["analysis"]["human_detection"]
    /\ "human" \in called
    /\ HasKey(video_results, "human")
    /\ Len(video_results["human"]) = 10
    /\ ~HasKey(video_results, "objects")

\* C13: the list get_video_files returns holds only files of the input
\* directory whose name ends with a configured extension, holds no file
\* twice, is in sorted order and is empty when the input directory does not
\* exist; and the n-th video passed to analyze_video is the n-th of the list.
C13_VideoFilesFilteredOnceSorted ==
    [][/\ (pc = "run_analysis" /\ pc' # "main_except") =>
             /\ \A n \in DOMAIN video_files' :
                   /\ video_files'[n] \in FilesIn(InputDir(config), fsFiles)
                   /\ \E m \in DOMAIN config["video"]["supported_formats"] :
                         EndsWith(Name(video_files'[n]),
                                  Chars[config["video"]["supported_formats"][m]])
             /\ \A m, n \in DOMAIN video_files' :
                   m < n => PathRank(video_files'[m]) < PathRank(video_files'[n])
             /\ InputDir(config) \notin fsDirs => video_files' = <<>>
       /\ started' # started =>
             /\ Len(started') = Len(started) + 1
             /\ started'[Len(started')] = video_files[Len(started')]
             /\ \A n \in DOMAIN started : started'[n] = started[n]]_vars

\* b.mp4, which both ".mp4" and "mp4" match, was found together with a.avi;
\* the list holds it once, after a.avi, and it is the second video analysed
C13_Witness ==
    /\ pc = "frame_loop"
    /\ Len(config["video"]["supported_formats"]) = 3
    /\ Len(video_files) = 2
    /\ video_files[1].suffix = ".avi"
    /\ video_files[2].stem = "b"
    /\ Len(started) = 2
    /\ started[2] = video_files[2]

\* the configured input directory did not exist: no video was found although
\* the default directory holds one, and the directory has been created
C13_WitnessMissingDirectory ==
    /\ pc = "done"
    /\ InputDir(config) = "clips"
    /\ "clips" \in fsDirs
    /\ video_files = <<>>

\* C14: any two calls of the same stub analyzer, on the same frame or on
\* different frames, at the same time or at different times, have returned
\* equal payloads.
C14_StubsReturnAConstant ==
    \A m, n \in DOMAIN returned :
        returned[m].analyzer = returned[n].analyzer =>
            returned[m].payload = returned[n].payload

\* the call is made by this step, for the first time for the video
New(call) == call \in called' /\ call \notin called

\* the visualizations of a video are asked for under this configuration
VisualizationsOn ==
    Get(config["output"], "create_visualizations", TRUE) /\ visualization_manager # None

\* C15 as stated: once the visualizations of a video have been rendered, its
\* report (when reports are on) has been written.
C15_ReportBeforeVisualizations ==
    (pc \in InVideo /\ "create_visualizations" \in called
     /\ Get(config["output"], "generate_report", FALSE)) =>
        "generate_report" \in called

\* C15 amended: for each video, extraction comes first; the analyzers of the
\* frames and the accumulation run while nothing of a later stage has run;
\* the behavior analysis runs once every frame has had its iteration; the
\* visualizations are rendered after the behavior analysis and before the
\* report; the report is written last, after analyze_video has returned a
\* success, and nothing is called for the video after it.
C15_StagesInOrder ==
    [][/\ (pc = "analyze_video" /\ called' # {}) =>
             called' = {"extract_frames", "get_video_info"}
       /\ (pc = "frame_loop" /\ i < total_frames) =>
             /\ "extract_frames" \in called
             /\ called \cap {"analyze_behavior", "create_visualizations",
                             "generate_report"} = {}
       /\ New("analyze_behavior") =>
             /\ "extract_frames" \in called
             /\ i = total_frames
             /\ called' \cap {"create_visualizations", "generate_report"} = {}
       /\ New("create_visualizations") =>
             /\ "extract_frames" \in called
             /\ i = total_frames
             /\ config["analysis"]["behavior_analysis"] => "analyze_behavior" \in called
             /\ "generate_report" \notin called'
       /\ New("generate_report") =>
             /\ "extract_frames" \in called
             /\ AnalysisSucceeded(video_results)
             /\ config["analysis"]["behavior_analysis"] => "analyze_behavior" \in called
             /\ VisualizationsOn => "create_visualizations" \in called
       /\ "generate_report" \in called =>
             called' \in {called, {}, {"extract_frames", "get_video_info"}}]_vars

\* the report of a video has just been written, after its behavior analysis
\* and its visualizations
C15_Witness ==
    /\ {"accumulate_results", "analyze_behavior", "create_visualizations",
        "generate_report"} \subseteq called
    /\ Len(reported) = 1
    /\ pc \in {"analyze_video", "consolidate"}

\* C16: when the visualizations of a video have been created and its results
\* hold a medical per-frame entry, the medical chart has been asked for, with
\* the dashboard, the heatmap and the infographic.
C16_MedicalChartRequested ==
    (pc = "finish_video" /\ "create_visualizations" \in called
     /\ FramesOf(analysis_results, "medical") # {}) =>
        {"create_analysis_dashboard", "create_detection_heatmap",
         "create_summary_infographic", "create_medical_analysis_chart"}
            \subseteq called

NoDuplicates(s) == \A m, n \in DOMAIN s : m # n => s[m] # s[n]

\* C18: the videos passed to analyze_video are pairwise distinct, each being
\* the next video of the list not yet started; every step of the frame loop
\* handles frame i once, calling each analyzer at most once, and moves to
\* frame i + 1; the report step of a video is taken once, adds at most one
\* report and leaves for the next video or the end of the loop; and the
\* index of the video being processed never goes back.  This holds whatever
\* fails on the way.
C18_NothingIsRetried ==
    [][/\ NoDuplicates(started')
       /\ NoDuplicates(reported')
       /\ video_index' >= video_index
       /\ started' # started =>
             /\ started' = Append(started, video_files[video_index])
             /\ Len(started') = video_index
       /\ (pc = "frame_loop" /\ pc' = "frame_loop") =>
             /\ i' = i + 1
             /\ NoDuplicates(calls')
       /\ pc' = "report" => pc = "check_result"
       /\ pc = "report" =>
             /\ pc' \in {"analyze_video", "consolidate"}
             /\ pc' = "analyze_video" => video_index' = video_index + 1
             /\ reported' \in {reported, Append(reported, CurrentVideo)}
       /\ (pc = "check_result" /\ pc' = "analyze_video") =>
             video_index' = video_index + 1]_vars

\* the run has ended after two videos, of which one failed: each was passed
\* to analyze_video once and the other has its one report
C18_Witness ==
    /\ pc = "done"
    /\ faults = 1
    /\ Len(started) = 2
    /\ failed_analyses = 1
    /\ Len(reported) = 1

\* the frames of which a record holds an entry in some category
FramesIn(results) ==
    UNION {FramesOf(results, k) : k \in PerFrameKeys(results)}

\* C19: one video at a time and one frame at a time.  While a video is being
\* processed it is the last video that was started; while the frame loop is
\* at frame i, the frames handled (accumulated or skipped) are the frames
\* before i, and a step of the loop touches frame i only; a video is started
\* only when no record is under construction and the video before it has
\* been through all its stages: all its frames handled, its record
\* returned, and its report attempted when it succeeded and reports are on.
C19_OneVideoOneFrameAtATime ==
    [][/\ pc \in (InVideo \ {"analyze_video"}) => Len(started) = video_index
       /\ pc = "frame_loop" =>
             /\ FramesIn(analysis_results) \cup skipped = 0 .. i - 1
             /\ FramesIn(analysis_results) \cap skipped = {}
             /\ pc' = "frame_loop" =>
                   /\ FramesIn(analysis_results') \ FramesIn(analysis_results) \subseteq {i}
                   /\ skipped' \ skipped \subseteq {i}
                   /\ (FramesIn(analysis_results') \cup skipped') = 0 .. i
             /\ pc' = "behavior" => i = total_frames
       /\ started' # started =>
             /\ pc = "analyze_video"
             /\ analysis_results = None
             /\ Len(started) > 0 =>
                   /\ video_results # None
                   /\ AnalysisSucceeded(video_results) =>
                         /\ FramesIn(video_results) \cup skipped = 0 .. total_frames - 1
                         /\ Get(config["output"], "generate_report", FALSE) =>
                               "generate_report" \in called]_vars

\* the second video is in its frame loop, at frame 3, after the first video
\* has been analysed and reported
C19_Witness ==
    /\ pc = "frame_loop"
    /\ video_index = 2
    /\ i = 3
    /\ Len(reported) = 1
    /\ successful_analyses = 1

\* C20: the record analyze_video starts to fill has every category empty,
\* and the record it returns holds, in each category, at most one entry per
\* frame of the video just analysed (the frames of that video that were not
\* skipped, or none) and carries the path of that video: nothing in it comes
\* from the record of an earlier video.
C20_RecordIsFreshPerVideo ==
    [][/\ (pc = "analyze_video" /\ pc' = "frame_loop") =>
             /\ \A k \in PerFrameKeys(analysis_results') :
                   analysis_results'[k] = EmptyList
             /\ analysis_results'["behavior_analysis"] = EmptyDict
             /\ analysis_results'["metadata"]["video_path"] = PathStr(CurrentVideo)
       /\ (pc # "check_result" /\ pc' = "check_result") =>
             /\ \A k \in PerFrameKeys(video_results') :
                   FrameIndices(video_results'[k])
                      \in {<<>>, Ascending((0 .. total_frames' - 1) \ skipped')}
             /\ HasKey(video_results'["metadata"], "video_path") =>
                   video_results'["metadata"]["video_path"] = PathStr(CurrentVideo)]_vars

\* the second video, of fifteen frames, has returned its record after a
\* first video of ten frames was analysed and stored
C20_Witness ==
    /\ pc = "check_result"
    /\ video_index = 2
    /\ AnalysisSucceeded(video_results)
    /\ HasKey(video_results, "human")
    /\ Len(video_results["human"]) = 15
    /\ \E name \in DOMAIN all_results :
          /\ HasKey(all_results[name], "human")
          /\ Len(all_results[name]["human"]) = 10

\* the categories whose toggle is on in the configuration of the run
EnabledCategories == {t.category : t \in {u \in Toggles : ToggleOn(u.toggle)}}

\* the frame indices of a category of a record, in the order of the list
IndicesOf(results, category) ==
    FrameIndices(Get(results, category, EmptyList))

\* all enabled categories of the record hold the same frame indices
SameFramesInAllCategories(results) ==
    \A k1, k2 \in EnabledCategories :
        IndicesOf(results, k1) = IndicesOf(results, k2)

\* C21: a step of the frame loop either appends an entry for frame i to
\* every enabled category or appends nothing to any category; so in the
\* record being built, in the record returned and in the records stored,
\* all enabled categories hold the same frame indices in the same order.
C21_AccumulationAllOrNothing ==
    [][/\ (pc = "frame_loop" /\ pc' = "frame_loop") =>
             /\ \/ \A k \in EnabledCategories :
                      IndicesOf(analysis_results', k)
                         = Append(IndicesOf(analysis_results, k), i)
                \/ /\ analysis_results' = analysis_results
                   /\ i \in skipped'
             /\ SameFramesInAllCategories(analysis_results')
       /\ (pc' = "check_result" /\ AnalysisSucceeded(video_results')) =>
             SameFramesInAllCategories(video_results')
       /\ pc' \in InVideo =>
             \A name \in DOMAIN all_results' :
                 SameFramesInAllCategories(all_results'[name])]_vars

\* the animal detector raised on frame 2 after the human analyzer and the
\* object detector had returned: frame 2 has no entry in any category, the
\* frames before it have one in each
C21_Witness ==
    /\ pc = "frame_loop"
    /\ i = 3
    /\ skipped = {2}
    /\ calls = <<"human", "objects", "animals">>
    /\ IndicesOf(analysis_results, "human") = <<0, 1>>
    /\ IndicesOf(analysis_results, "objects") = <<0, 1>>
    /\ IndicesOf(analysis_results, "medical") = <<0, 1>>

\* C22: at every boundary of the loop of run_analysis, and when it has
\* ended, all_results holds as many entries as videos were counted in
\* successful_analyses.
C22_ResultsMatchSuccessCount ==
    pc \in {"analyze_video", "consolidate", "done"} =>
        Cardinality(DOMAIN all_results) = successful_analyses

\* C23: at every boundary of the loop of run_analysis, and when the loop has
\* ended without an interruption, successful_analyses + failed_analyses is
\* the number of videos that have gone through an iteration; at the end of
\* such a run it is the number of videos found.
C23_EachVideoCountedOnce ==
    (pc \in {"analyze_video", "consolidate", "done"} /\ interrupted = 0) =>
        /\ successful_analyses + failed_analyses = Len(started)
        /\ pc \in {"consolidate", "done"} =>
              successful_analyses + failed_analyses = Len(video_files)

\* analyze_video has returned the record of a video of which no frame was
\* extracted
ZeroFrameRecordReturned ==
    pc = "check_result" /\ "extract_frames" \in called /\ total_frames = 0

\* C24: the record returned for a video without frames has neither the
\* analysis_success flag nor an error message, and the step of run_analysis
\* that follows counts the video as failed, stores nothing in all_results,
\* writes no report and goes on to the next iteration (unless the run is
\* interrupted at that point, which counts nothing).
C24_ZeroFramesCountAsFailure ==
    [][ZeroFrameRecordReturned =>
          /\ ~HasKey(video_results["metadata"], "analysis_success")
          /\ ~HasKey(video_results["metadata"], "error_message")
          /\ interrupted' # interrupted \/ failed_analyses' = failed_analyses + 1
          /\ successful_analyses' = successful_analyses
          /\ all_results' = all_results
          /\ reports' = reports
          /\ reported' = reported
          /\ pc' \in {"analyze_video", "consolidate"}]_vars

\* the run has ended with one video, whose extraction failed: it is counted
\* failed, the results are empty and no report exists
C24_Witness ==
    /\ pc = "done"
    /\ Len(started) = 1
    /\ "extract_frames" \in called
    /\ total_frames = 0
    /\ failed_analyses = 1
    /\ all_results = EmptyDict
    /\ reports = EmptyDict

\* C25: construction never fails because the directory of the log file is
\* missing: no FileNotFoundError leaves VideoAnalysisSystem.__init__.
C25_LogDirectoryExistsFirst ==
    \A n \in DOMAIN log :
        ~(log[n].where = "main" /\ log[n].what = "FileNotFoundError")

\* C26: the record returned for a video of which at least one frame was
\* extracted, when no exception left analyze_video, has analysis_success =
\* True and total_frames_processed = the number of frames extracted,
\* whatever number of frames was skipped; the number of entries of a
\* category that is on is the number of frames not skipped.
C26_SuccessCountsFramesExtracted ==
    (pc = "check_result" /\ "extract_frames" \in called /\ total_frames > 0
     /\ ~VideoRaised) =>
        /\ video_results["metadata"]["analysis_success"] = TRUE
        /\ total_frames = _simulate_frame_extraction(CurrentVideo)
        /\ video_results["metadata"]["total_frames_processed"] = total_frames
        /\ \A k \in EnabledCategories :
              Len(Get(video_results, k, EmptyList))
                 = total_frames - Cardinality(skipped)

\* every one of the ten frames of a video failed: the record returned is a
\* success with total_frames_processed = 10 and no entry in any category
C26_Witness ==
    /\ pc = "check_result"
    /\ skipped = 0 .. 9
    /\ AnalysisSucceeded(video_results)
    /\ video_results["metadata"]["total_frames_processed"] = 10
    /\ FramesIn(video_results) = {}

\* the handler of a stage that follows the frame loop has logged an
\* exception for the video of the current iteration
PostStageFailed(stage) ==
    \E n \in DOMAIN log :
        /\ log[n].where = stage
        /\ log[n].video = PathStr(CurrentVideo)

\* C27: when the behavior analysis or the visualizations of a video raised,
\* the record returned is a success (with an empty behavior_analysis in the
\* first case) and the step that follows stores it and counts a success;
\* when generate_report raises, the step logs the error and changes neither
\* the counters nor all_results, where the video has been stored.
C27_PostFrameFailureKeepsSuccess ==
    [][/\ (pc = "check_result" /\ interrupted' = interrupted
           /\ (PostStageFailed("behavior") \/ PostStageFailed("visualization"))) =>
             /\ AnalysisSucceeded(video_results)
             /\ PostStageFailed("behavior") =>
                   video_results["behavior_analysis"] = EmptyDict
             /\ successful_analyses' = successful_analyses + 1
             /\ failed_analyses' = failed_analyses
             /\ HasKey(all_results', CurrentVideo.stem)
             /\ all_results'[CurrentVideo.stem] = video_results
       /\ (pc = "report" /\ faults' # faults) =>
             /\ Len(log') = Len(log) + 1
             /\ log'[Len(log')].level = "error"
             /\ log'[Len(log')].video = PathStr(CurrentVideo)
             /\ successful_analyses' = successful_analyses
             /\ failed_analyses' = failed_analyses
             /\ all_results' = all_results
             /\ HasKey(all_results, CurrentVideo.stem)
             /\ AnalysisSucceeded(all_results[CurrentVideo.stem])]_vars

\* generate_report raised for the only video of the run: the run has ended
\* with one success, no failure, the video in the results and no report
C27_Witness ==
    /\ pc = "done"
    /\ Len(started) = 1
    /\ \E n \in DOMAIN log : log[n].where = "report"
    /\ successful_analyses = 1
    /\ failed_analyses = 0
    /\ HasKey(all_results, video_files[1].stem)
    /\ reports = EmptyDict

\* the behavior analysis of a video raised and the video has been stored
\* with an empty behavior_analysis
C27_WitnessBehavior ==
    /\ pc = "report"
    /\ PostStageFailed("behavior")
    /\ all_results[CurrentVideo.stem]["behavior_analysis"] = EmptyDict
    /\ successful_analyses = 1

\* the step taken is an iteration of the frame loop in which
\* save_annotated_frame was called and failed
SaveFailedInStep ==
    /\ pc = "frame_loop"
    /\ i < total_frames
    /\ faults' = faults + 1
    /\ "save_annotated_frame" \in SeqToSet(calls')

\* C28: when save_frames is on and saving frame i fails, the iteration does
\* not take the handler of the loop: frame i is not skipped,
\* accumulate_results is called and every enabled category gains an entry for
\* frame i, the loop goes on with frame i + 1, and the only trace of the
\* failure is the error that save_annotated_frame logs.
C28_SaveFailureKeepsFrame ==
    [][SaveFailedInStep =>
          /\ config["output"]["save_frames"]
          /\ skipped' = skipped
          /\ calls'[Len(calls')] = "accumulate_results"
          /\ EnabledCategories # {}
          /\ \A k \in EnabledCategories :
                IndicesOf(analysis_results', k) = Append(IndicesOf(analysis_results, k), i)
          /\ i' = i + 1
          /\ pc' = "frame_loop"
          /\ log' = Append(log, [level |-> "error", where |-> "save_annotated_frame",
                                 frame |-> i, what |-> "Exception"])]_vars

\* the save of a frame has failed and the video has been analysed to the
\* end with all of its frames accumulated
C28_Witness ==
    /\ pc = "check_result"
    /\ \E n \in DOMAIN log : log[n].where = "save_annotated_frame"
    /\ AnalysisSucceeded(video_results)
    /\ skipped = {}
    /\ total_frames > 0
    /\ \A k \in EnabledCategories :
          Len(IndicesOf(video_results, k)) = total_frames

\* the sections and toggles that the pipeline reads with a subscript
ConfigKeysRead ==
    {<<"video", "input_path">>, <<"video", "supported_formats">>,
     <<"analysis", "human_detection">>, <<"analysis", "object_detection">>,
     <<"analysis", "animal_detection">>, <<"analysis", "environment_analysis">>,
     <<"analysis", "behavior_analysis">>,
     <<"output", "generate_report">>, <<"output", "save_frames">>}

\* the value is a mapping that holds every key of ConfigKeysRead
HoldsEveryKeyRead(cfg) ==
    /\ cfg # None
    /\ \A key \in ConfigKeysRead :
          /\ HasKey(cfg, key[1])
          /\ HasKey(cfg[key[1]], key[2])

\* C29: once load_config has returned, the configuration is a mapping that
\* holds every section and toggle the pipeline reads, whatever the
\* configuration file contains.
C29_ConfigCompletedFromDefaults ==
    pc # "load_config" => HoldsEveryKeyRead(config)

====
